---- MODULE Spec2Model ----
(***************************************************************************)
(* Model of the Upbound Cloud control-plane client adapter (package cloud) *)
(* and of the dependency reference parser (package dep).                   *)
(*                                                                         *)
(* Go strings whose contents the code inspects are sequences of bytes      *)
(* (naturals below 256); strings that are only passed around are TLA+      *)
(* strings.  A Go pointer is a sequence of length at most one: <<>> is nil *)
(* and <<v>> points to v.                                                  *)
(***************************************************************************)
EXTENDS Integers, Sequences, FiniteSets, TLC

VARIABLES client, call, trace, ret

vars == <<client, call, trace, ret>>

-----------------------------------------------------------------------------
(* Bounds of the model.                                                    *)

MaxStatusLen == 2
MaxRefLen == 4
MaxList == 2
MaxTime == 1

-----------------------------------------------------------------------------
(* Byte strings.                                                           *)

\* "ready"
StrReady == <<114, 101, 97, 100, 121>>
\* "pending"
StrPending == <<112, 101, 110, 100, 105, 110, 103>>
\* "True"
StrTrue == <<84, 114, 117, 101>>
\* "latest"
StrLatest == <<108, 97, 116, 101, 115, 116>>
\* "acme/db"
StrAcmeDb == <<97, 99, 109, 101, 47, 100, 98>>
\* "v1.2.3"
StrV123 == <<118, 49, 46, 50, 46, 51>>
\* "@"
StrAt == <<64>>
\* ":"
StrColon == <<58>>
\* U+FFFD, the replacement character, in UTF-8
StrRuneError == <<239, 191, 189>>

\* The UTF-8 encoding of a character; a character is the sequence of its bytes.
CharP == <<112>>
CharEAcute == <<195, 169>>

RECURSIVE Flatten(_)
Flatten(ss) == IF ss = <<>> THEN <<>> ELSE Head(ss) \o Flatten(Tail(ss))

RECURSIVE SeqsUpTo(_, _)
SeqsUpTo(S, n) ==
    IF n = 0 THEN {<<>>}
    ELSE LET shorter == SeqsUpTo(S, n - 1)
         IN  shorter \cup {Append(s, x) : s \in {t \in shorter : Len(t) = n - 1}, x \in S}

IsLowerASCII(b) == b >= 97 /\ b <= 122
IsUpperASCII(b) == b >= 65 /\ b <= 90
IsASCII(s) == \A i \in 1..Len(s) : s[i] < 128

\* strings.ToUpper: an all-ASCII string is mapped byte by byte; otherwise the
\* string goes through strings.Map, which decodes runes and writes U+FFFD for
\* every byte that is not the start of a valid encoding.  Only the inputs
\* formatStatus can pass (strings of one byte) are covered beyond ASCII.
ToUpper(s) ==
    IF IsASCII(s)
    THEN [i \in 1..Len(s) |-> IF IsLowerASCII(s[i]) THEN s[i] - 32 ELSE s[i]]
    ELSE IF Len(s) = 1 THEN StrRuneError ELSE s

\* strings.ToLower on ASCII input.
ToLower(s) == [i \in 1..Len(s) |-> IF IsUpperASCII(s[i]) THEN s[i] + 32 ELSE s[i]]

\* strings.Title's word boundary: ASCII letters, digits and underscore are
\* not separators, every other ASCII byte is.
IsSeparator(b) ==
    ~(IsLowerASCII(b) \/ IsUpperASCII(b) \/ (b >= 48 /\ b <= 57) \/ b = 95)

\* strings.Title on ASCII input: upper-case the first letter of each word.
Title(s) ==
    [i \in 1..Len(s) |->
        IF (i = 1 \/ IsSeparator(s[i - 1])) /\ IsLowerASCII(s[i]) THEN s[i] - 32 ELSE s[i]]

\* strings.Split(s, sep) for a separator of one byte: the pieces between
\* the occurrences of sep, in order; always at least one piece.
RECURSIVE SplitFrom(_, _, _)
SplitFrom(s, sep, cur) ==
    IF s = <<>> THEN <<cur>>
    ELSE IF Head(s) = sep THEN <<cur>> \o SplitFrom(Tail(s), sep, <<>>)
    ELSE SplitFrom(Tail(s), sep, Append(cur, Head(s)))

Split(s, sep) == SplitFrom(s, sep, <<>>)

-----------------------------------------------------------------------------
(* Package dep.                                                            *)

\* The package types of crossplane's v1beta1 API: "Provider", "Configuration".
ProviderPackageType == <<80, 114, 111, 118, 105, 100, 101, 114>>
ConfigurationPackageType == <<67, 111, 110, 102, 105, 103, 117, 114, 97, 116, 105, 111, 110>>

\* The constraint used when the reference names no version.
defaultVer == StrLatest

\* New taking the second piece as the version whenever there is one.
NewSecondPiece(pkg, t) ==
    LET ps == Split(pkg, 64)
        source == ps[1]
        version == IF Len(ps) >= 2 THEN ps[2] ELSE defaultVer
    IN  [Package |-> source,
         Type |-> IF Title(ToLower(t)) = ConfigurationPackageType
                  THEN ConfigurationPackageType
                  ELSE ProviderPackageType,
         Constraints |-> version]

\* dep.New: split on "@"; the first piece is the source; the second piece
\* is the version only when the split gave exactly two pieces.
New(pkg, t) ==
    LET ps == Split(pkg, 64)
        source == ps[1]
        version == IF Len(ps) = 2 THEN ps[2] ELSE defaultVer
    IN  [Package |-> source,
         Type |-> IF Title(ToLower(t)) = ConfigurationPackageType
                  THEN ConfigurationPackageType
                  ELSE ProviderPackageType,
         Constraints |-> version]

\* v1beta1.Dependency.Identifier: the package source.
Identifier(d) == d.Package

\* ImgTag with the separator of the reference syntax instead of the tag's.
ImgTagAtSeparator(d) == d.Package \o StrAt \o d.Constraints

\* dep.ImgTag: fmt.Sprintf("%s:%s", d.Identifier(), d.Constraints)
ImgTag(d) == Identifier(d) \o StrColon \o d.Constraints

-----------------------------------------------------------------------------
(* Package cloud: values exchanged with the wrapped clients.               *)

maxItems == 100

\* controlplanes.Status values.
StatusProvisioning == "provisioning"
StatusUpdating == "updating"
StatusReady == "ready"
StatusDeleting == "deleting"

\* controlplanes.ConfigurationReady
ConfigurationReady == StrReady

\* errors.New("namespace is not supported for Upbound Cloud control planes")
ErrNamespace ==
    [type |-> "errorString",
     text |-> "namespace is not supported for Upbound Cloud control planes"]

\* sdkerrs.IsNotFound on an error pointer: false for nil.
IsNotFound(err) == err # <<>> /\ err[1].type = "sdk" /\ err[1].status = 404

\* controlplane.NewNotFound: the typed not-found condition wrapping err.
NewNotFound(err) == [type |-> "NotFound", cause |-> err]

\* What a call of an adapter method ends in: a return of (value, error), or
\* a run-time panic that unwinds the call.
Return(val, err) == [kind |-> "return", val |-> val, err |-> err]
Panic == [kind |-> "panic", val |-> <<>>, err |-> <<>>]

toBool(b) == IF b THEN "True" ELSE "False"

\* toMessage with the texts of provisioning and updating exchanged.
toMessageExchanged(status) ==
    CASE status = StatusProvisioning -> "Controlplane is being updated"
      [] status = StatusUpdating -> "Controlplane is being created"
      [] status = StatusDeleting -> "Controlplane is being deleted"
      [] OTHER -> ""

toMessage(status) ==
    CASE status = StatusProvisioning -> "Controlplane is being created"
      [] status = StatusUpdating -> "Controlplane is being updated"
      [] status = StatusDeleting -> "Controlplane is being deleted"
      [] OTHER -> ""

\* formatStatus: the first BYTE is upper-cased through strings.ToUpper and
\* the bytes after it are appended unchanged.
formatStatus(status) ==
    IF status = <<>> THEN <<>>
    ELSE IF status = ConfigurationReady THEN StrTrue
    ELSE ToUpper(SubSeq(status, 1, 1)) \o SubSeq(status, 2, Len(status))

\* convert dereferences Configuration.Name whenever Configuration is set:
\* a nil Name is a nil-pointer dereference, which panics.
convertPanics(ctp) ==
    /\ ctp.ControlPlane.Configuration # <<>>
    /\ ctp.ControlPlane.Configuration[1].Name = <<>>

\* convert, where it does not panic; now is the wall clock read by time.Since.
convert(ctp, now) ==
    LET hasCfg == ctp.ControlPlane.Configuration # <<>>
        cfgName == IF hasCfg THEN ctp.ControlPlane.Configuration[1].Name[1] ELSE ""
        cfgStatus == IF hasCfg THEN ctp.ControlPlane.Configuration[1].Status ELSE <<>>
        age == IF ctp.ControlPlane.CreatedAt # <<>>
               THEN <<now - ctp.ControlPlane.CreatedAt[1]>>
               ELSE <<>>
    IN  [ID |-> <<"uuid", ctp.ControlPlane.ID>>,
         Name |-> ctp.ControlPlane.Name,
         Synced |-> toBool(TRUE),
         Ready |-> toBool(ctp.Status = StatusReady),
         Message |-> toMessage(ctp.Status),
         Cfg |-> cfgName,
         Updated |-> formatStatus(cfgStatus),
         Age |-> age]

\* One recorded call of a wrapped client, with the reply it gave.
CtpCall(method, account, arg, reply) ==
    [client |-> "ctp", method |-> method, account |-> account, arg |-> arg, reply |-> reply]
CfgCall(account, name, reply) ==
    [client |-> "cfg", method |-> "Get", account |-> account, arg |-> name, reply |-> reply]

\* Each method below gives the outcome of the call and the calls it made to
\* the wrapped clients, from its arguments and the replies of those clients.

\* Client.Get
Get(c, ctp, reply, now) ==
    IF ctp.Namespace # "" THEN [out |-> Return(<<>>, <<ErrNamespace>>), trace |-> <<>>]
    ELSE LET tr == <<CtpCall("Get", c.account, ctp.Name, reply)>>
         IN  IF IsNotFound(reply.err)
             THEN [out |-> Return(<<>>, <<NewNotFound(reply.err[1])>>), trace |-> tr]
             ELSE IF reply.err # <<>>
             THEN [out |-> Return(<<>>, reply.err), trace |-> tr]
             ELSE IF convertPanics(reply.resp[1])
             THEN [out |-> Panic, trace |-> tr]
             ELSE [out |-> Return(<<convert(reply.resp[1], now)>>, <<>>), trace |-> tr]

\* The loop of Client.List: convert every element in order; a panic in one
\* conversion unwinds the whole call.
listPanics(cps) == \E i \in 1..Len(cps) : convertPanics(cps[i])
listConvert(cps, now) == [i \in 1..Len(cps) |-> convert(cps[i], now)]

\* Client.List
List(c, namespace, reply, now) ==
    IF namespace # "" THEN [out |-> Return(<<>>, <<ErrNamespace>>), trace |-> <<>>]
    ELSE LET tr == <<CtpCall("List", c.account, [size |-> maxItems], reply)>>
         IN  IF reply.err # <<>>
             THEN [out |-> Return(<<>>, reply.err), trace |-> tr]
             ELSE IF listPanics(reply.resp[1].ControlPlanes)
             THEN [out |-> Panic, trace |-> tr]
             ELSE [out |-> Return(<<listConvert(reply.resp[1].ControlPlanes, now)>>, <<>>),
                   trace |-> tr]

\* Create resolving the configuration name before it looks at the namespace.
CreateLookupBeforeScope(c, ctp, opts, cfgReply, reply, now) ==
    LET lookup == IF opts.ConfigurationName # <<>>
                  THEN <<CfgCall(c.account, opts.ConfigurationName[1], cfgReply)>>
                  ELSE <<>>
        params == [Name |-> ctp.Name,
                   Description |-> opts.Description,
                   ConfigurationID |-> IF lookup # <<>> /\ cfgReply.err = <<>>
                                       THEN <<cfgReply.resp[1].ID>>
                                       ELSE <<>>]
        tr == lookup \o <<CtpCall("Create", c.account, params, reply)>>
    IN  IF lookup # <<>> /\ cfgReply.err # <<>>
        THEN [out |-> Return(<<>>, cfgReply.err), trace |-> lookup]
        ELSE IF ctp.Namespace # ""
        THEN [out |-> Return(<<>>, <<ErrNamespace>>), trace |-> lookup]
        ELSE IF reply.err # <<>>
        THEN [out |-> Return(<<>>, reply.err), trace |-> tr]
        ELSE IF convertPanics(reply.resp[1])
        THEN [out |-> Panic, trace |-> tr]
        ELSE [out |-> Return(<<convert(reply.resp[1], now)>>, <<>>), trace |-> tr]

\* Create going on to the create call after a failed lookup.
CreateDespiteLookupError(c, ctp, opts, cfgReply, reply, now) ==
    IF ctp.Namespace # "" THEN [out |-> Return(<<>>, <<ErrNamespace>>), trace |-> <<>>]
    ELSE LET lookup == IF opts.ConfigurationName # <<>>
                       THEN <<CfgCall(c.account, opts.ConfigurationName[1], cfgReply)>>
                       ELSE <<>>
             params == [Name |-> ctp.Name,
                        Description |-> opts.Description,
                        ConfigurationID |-> IF lookup # <<>> /\ cfgReply.err = <<>>
                                            THEN <<cfgReply.resp[1].ID>>
                                            ELSE <<>>]
             tr == lookup \o <<CtpCall("Create", c.account, params, reply)>>
         IN  IF reply.err # <<>>
             THEN [out |-> Return(<<>>, reply.err), trace |-> tr]
             ELSE IF convertPanics(reply.resp[1])
             THEN [out |-> Panic, trace |-> tr]
             ELSE [out |-> Return(<<convert(reply.resp[1], now)>>, <<>>), trace |-> tr]

\* Client.Create
Create(c, ctp, opts, cfgReply, reply, now) ==
    IF ctp.Namespace # "" THEN [out |-> Return(<<>>, <<ErrNamespace>>), trace |-> <<>>]
    ELSE LET lookup == IF opts.ConfigurationName # <<>>
                       THEN <<CfgCall(c.account, opts.ConfigurationName[1], cfgReply)>>
                       ELSE <<>>
             params == [Name |-> ctp.Name,
                        Description |-> opts.Description,
                        ConfigurationID |-> IF lookup # <<>> /\ cfgReply.err = <<>>
                                            THEN <<cfgReply.resp[1].ID>>
                                            ELSE <<>>]
             tr == lookup \o <<CtpCall("Create", c.account, params, reply)>>
         IN  IF lookup # <<>> /\ cfgReply.err # <<>>
             THEN [out |-> Return(<<>>, cfgReply.err), trace |-> lookup]
             ELSE IF reply.err # <<>>
             THEN [out |-> Return(<<>>, reply.err), trace |-> tr]
             ELSE IF convertPanics(reply.resp[1])
             THEN [out |-> Panic, trace |-> tr]
             ELSE [out |-> Return(<<convert(reply.resp[1], now)>>, <<>>), trace |-> tr]

\* Client.Delete
Delete(c, ctp, reply) ==
    IF ctp.Namespace # "" THEN [out |-> Return(<<>>, <<ErrNamespace>>), trace |-> <<>>]
    ELSE LET tr == <<CtpCall("Delete", c.account, ctp.Name, reply)>>
         IN  IF IsNotFound(reply.err)
             THEN [out |-> Return(<<>>, <<NewNotFound(reply.err[1])>>), trace |-> tr]
             ELSE [out |-> Return(<<>>, reply.err), trace |-> tr]

-----------------------------------------------------------------------------
(* The inputs the model draws from.                                        *)

Accounts == {"acme"}
Namespaces == {"", "ns"}
CPNames == {"cp"}
Keys == [Namespace : Namespaces, Name : CPNames]
Clock == 0..MaxTime

Statuses == {StatusProvisioning, StatusUpdating, StatusReady, StatusDeleting, ""}

\* Configuration statuses: "ready", "pending", and every string of at most
\* MaxStatusLen characters over "p" and the two-byte character U+00E9.
CfgStatuses ==
    {Flatten(cs) : cs \in SeqsUpTo({CharP, CharEAcute}, MaxStatusLen)}
        \cup {StrReady, StrPending}

Configurations == [Name : {<<>>, <<"cfg">>}, Status : CfgStatuses]

ControlPlanes ==
    [ID : {1},
     Name : CPNames,
     Configuration : {<<>>} \cup {<<cfg>> : cfg \in Configurations},
     CreatedAt : {<<>>} \cup {<<t>> : t \in Clock}]

Responses == [ControlPlane : ControlPlanes, Status : Statuses]

\* The elements of list replies: no creation time, configuration status
\* empty or ready.
ListElems ==
    {r \in Responses :
        /\ r.ControlPlane.CreatedAt = <<>>
        /\ \/ r.ControlPlane.Configuration = <<>>
           \/ r.ControlPlane.Configuration[1].Status \in {<<>>, StrReady}}

BackendErrors ==
    {[type |-> "sdk", status |-> 404, text |-> "not found"],
     [type |-> "sdk", status |-> 500, text |-> "internal"],
     [type |-> "net", status |-> 0, text |-> "timeout"]}

Failures == {[resp |-> <<>>, err |-> <<e>>] : e \in BackendErrors}

GetReplies == {[resp |-> <<r>>, err |-> <<>>] : r \in Responses} \cup Failures
ListReplies ==
    {[resp |-> <<[ControlPlanes |-> l]>>, err |-> <<>>] : l \in SeqsUpTo(ListElems, MaxList)}
        \cup Failures
CfgReplies == {[resp |-> <<[ID |-> 7]>>, err |-> <<>>]} \cup Failures
DeleteReplies == {[resp |-> <<>>, err |-> <<>>]} \cup Failures

CreateOptions == [Description : {"", "d"}, ConfigurationName : {<<>>, <<"cfg">>}]
\* The reply of a client that is not called.
NoReply == [resp |-> <<>>, err |-> <<>>]

\* "provider", "configuration", "Configuration", "CONFIGURATION", "widget", ""
TypeHints ==
    {<<112, 114, 111, 118, 105, 100, 101, 114>>,
     <<99, 111, 110, 102, 105, 103, 117, 114, 97, 116, 105, 111, 110>>,
     <<67, 111, 110, 102, 105, 103, 117, 114, 97, 116, 105, 111, 110>>,
     <<67, 79, 78, 70, 73, 71, 85, 82, 65, 84, 73, 79, 78>>,
     <<119, 105, 100, 103, 101, 116>>,
     <<>>}

\* Package references: "acme/db@v1.2.3", "acme/db", and every string of at
\* most MaxRefLen bytes over "a", "b" and "@".
References ==
    SeqsUpTo({97, 98, 64}, MaxRefLen) \cup {StrAcmeDb \o StrAt \o StrV123, StrAcmeDb}

-----------------------------------------------------------------------------
(* The state machine.  The adapter holds no state besides its construction *)
(* parameters and no method changes them, so every call starts from the    *)
(* state after construction: a behaviour is one call (or New followed by   *)
(* ImgTag of its result), and a state is that call, the calls it made to   *)
(* the wrapped clients, and what it ended in.                              *)

\* cloud.New: the client after construction.  The token and the proxy
\* endpoint set by the options are read by GetKubeConfig only, which calls
\* neither wrapped client and converts nothing; they are left out.
Init ==
    /\ client \in [account : Accounts]
    /\ call = [op |-> "none"]
    /\ trace = <<>>
    /\ ret = Return(<<>>, <<>>)

CallGet ==
    /\ call.op = "none"
    /\ \E ctp \in Keys, reply \in GetReplies, now \in Clock :
        LET r == Get(client, ctp, reply, now)
        IN  /\ call' = [op |-> "Get", ctp |-> ctp, now |-> now]
            /\ trace' = r.trace
            /\ ret' = r.out
            /\ UNCHANGED client

CallList ==
    /\ call.op = "none"
    /\ \E namespace \in Namespaces, reply \in ListReplies, now \in Clock :
        LET r == List(client, namespace, reply, now)
        IN  /\ call' = [op |-> "List", namespace |-> namespace, now |-> now]
            /\ trace' = r.trace
            /\ ret' = r.out
            /\ UNCHANGED client

CallCreate ==
    /\ call.op = "none"
    /\ \E ctp \in Keys, opts \in CreateOptions, now \in Clock :
        \E cfgReply \in (IF opts.ConfigurationName # <<>> THEN CfgReplies ELSE {NoReply}),
           reply \in GetReplies :
            LET r == Create(client, ctp, opts, cfgReply, reply, now)
            IN  /\ call' = [op |-> "Create", ctp |-> ctp, opts |-> opts, now |-> now]
                /\ trace' = r.trace
                /\ ret' = r.out
                /\ UNCHANGED client

CallDelete ==
    /\ call.op = "none"
    /\ \E ctp \in Keys, reply \in DeleteReplies :
        LET r == Delete(client, ctp, reply)
        IN  /\ call' = [op |-> "Delete", ctp |-> ctp]
            /\ trace' = r.trace
            /\ ret' = r.out
            /\ UNCHANGED client

CallNew ==
    /\ call.op = "none"
    /\ \E pkg \in References, t \in TypeHints :
        /\ call' = [op |-> "New", pkg |-> pkg, t |-> t]
        /\ trace' = <<>>
        /\ ret' = Return(<<New(pkg, t)>>, <<>>)
        /\ UNCHANGED client

\* ImgTag of the dependency the last call of New returned; the call record
\* keeps the reference and the type hint that dependency was parsed from.
CallImgTag ==
    /\ call.op = "New"
    /\ call' = [op |-> "ImgTag", d |-> ret.val[1], pkg |-> call.pkg, t |-> call.t]
    /\ trace' = <<>>
    /\ ret' = Return(<<ImgTag(ret.val[1])>>, <<>>)
    /\ UNCHANGED client

Next ==
    \/ CallGet
    \/ CallList
    \/ CallCreate
    \/ CallDelete
    \/ CallNew
    \/ CallImgTag

Spec == Init /\ [][Next]_vars

-----------------------------------------------------------------------------
(* Vocabulary of the properties.                                           *)

\* The last call was a method of the adapter, asked with a namespace.
Namespaced ==
    \/ call.op \in {"Get", "Create", "Delete"} /\ call.ctp.Namespace # ""
    \/ call.op = "List" /\ call.namespace # ""

\* The calls the last call made to one wrapped client.
CallsTo(cl, method) ==
    {i \in 1..Len(trace) : trace[i].client = cl /\ trace[i].method = method}

\* The backend responses the last call had to convert, in order.
ToConvert ==
    IF call.op \in {"Get", "Create"}
    THEN IF \E i \in CallsTo("ctp", call.op) : trace[i].reply.err = <<>>
         THEN <<trace[Len(trace)].reply.resp[1]>>
         ELSE <<>>
    ELSE IF call.op = "List" /\ trace # <<>> /\ trace[1].reply.err = <<>>
    THEN trace[1].reply.resp[1].ControlPlanes
    ELSE <<>>

\* The responses the last call returned, in order.
Returned ==
    IF ret.kind = "return" /\ ret.val # <<>>
    THEN IF call.op \in {"Get", "Create"} THEN ret.val
         ELSE IF call.op = "List" THEN ret.val[1]
         ELSE <<>>
    ELSE <<>>

\* Positions of "@" in a reference, and the text around the first of them.
AtPositions(s) == {i \in 1..Len(s) : s[i] = 64}
FirstAt(s) == CHOOSE i \in AtPositions(s) : \A j \in AtPositions(s) : i <= j
BeforeFirstAt(s) == IF AtPositions(s) = {} THEN s ELSE SubSeq(s, 1, FirstAt(s) - 1)
AfterFirstAt(s) == SubSeq(s, FirstAt(s) + 1, Len(s))

\* A string with its first CHARACTER upper-cased (ASCII and the lower-case
\* letters of Latin-1, which UTF-8 writes as 195 followed by 160..190).
UpperFirstChar(s) ==
    IF s = <<>> THEN s
    ELSE IF s[1] < 128
    THEN <<IF IsLowerASCII(s[1]) THEN s[1] - 32 ELSE s[1]>> \o SubSeq(s, 2, Len(s))
    ELSE IF s[1] = 195 /\ Len(s) >= 2 /\ s[2] >= 160 /\ s[2] <= 190 /\ s[2] # 183
    THEN <<195, s[2] - 32>> \o SubSeq(s, 3, Len(s))
    ELSE s

-----------------------------------------------------------------------------
(* Properties.                                                             *)

\* C1: a Get, List, Create or Delete asked with a non-empty namespace fails
\* with the unsupported-scope error and calls neither the control-plane
\* client nor the configuration lookup client.
C1_UnsupportedScope ==
    Namespaced => (ret = Return(<<>>, <<ErrNamespace>>) /\ trace = <<>>)

C1_Witness ==
    /\ call.op = "Create"
    /\ call.ctp.Namespace = "ns"
    /\ call.opts.ConfigurationName # <<>>
    /\ ret.err = <<ErrNamespace>>
    /\ trace = <<>>

\* C2: Get and Delete with an empty namespace: a not-found reply gives the
\* typed not-found condition, any other error is returned unchanged, and on
\* success Get returns the converted response without error and Delete
\* returns no error.
C2_GetDeleteOutcome ==
    (call.op \in {"Get", "Delete"} /\ call.ctp.Namespace = "") =>
        /\ Len(trace) = 1
        /\ LET reply == trace[1].reply
           IN  /\ IsNotFound(reply.err) => ret = Return(<<>>, <<NewNotFound(reply.err[1])>>)
               /\ (reply.err # <<>> /\ ~IsNotFound(reply.err)) => ret = Return(<<>>, reply.err)
               /\ (reply.err = <<>> /\ call.op = "Delete") => ret = Return(<<>>, <<>>)
               /\ (reply.err = <<>> /\ call.op = "Get") =>
                      /\ ret.kind = "return"
                      /\ ret.err = <<>>
                      /\ ret.val = <<convert(reply.resp[1], call.now)>>

\* C3: Create with an empty namespace: with a configuration name, exactly
\* one lookup is made and it comes before any create call; a failed lookup
\* means no create call and its error returned unchanged; without a
\* configuration name there is no lookup and exactly one create call.
C3_LookupBeforeCreate ==
    (call.op = "Create" /\ call.ctp.Namespace = "") =>
        IF call.opts.ConfigurationName # <<>>
        THEN /\ CallsTo("cfg", "Get") = {1}
             /\ trace[1].arg = call.opts.ConfigurationName[1]
             /\ \A i \in CallsTo("ctp", "Create") : i > 1
             /\ trace[1].reply.err # <<>> =>
                    /\ CallsTo("ctp", "Create") = {}
                    /\ ret = Return(<<>>, trace[1].reply.err)
        ELSE /\ CallsTo("cfg", "Get") = {}
             /\ Cardinality(CallsTo("ctp", "Create")) = 1

C3_Witness ==
    /\ call.op = "Create"
    /\ call.ctp.Namespace = ""
    /\ call.opts.ConfigurationName # <<>>
    /\ Len(trace) = 1
    /\ trace[1].client = "cfg"
    /\ trace[1].reply.err # <<>>
    /\ ret.err = trace[1].reply.err

\* C4: every response a conversion yields has Synced "True", Ready "True"
\* exactly for the ready status and "False" otherwise, and the Message of
\* its status: being created for provisioning, being updated for updating,
\* being deleted for deleting, empty for every other status; so a ready
\* response has an empty Message.
C4_StatusFields ==
    (Len(Returned) = Len(ToConvert)) =>
        \A i \in 1..Len(Returned) :
            LET status == ToConvert[i].Status
                r == Returned[i]
            IN  /\ r.Synced = "True"
                /\ r.Ready = (IF status = "ready" THEN "True" ELSE "False")
                /\ status = "provisioning" => r.Message = "Controlplane is being created"
                /\ status = "updating" => r.Message = "Controlplane is being updated"
                /\ status = "deleting" => r.Message = "Controlplane is being deleted"
                /\ status \notin {"provisioning", "updating", "deleting"} => r.Message = ""
                /\ r.Ready = "True" => r.Message = ""

C4_Witness ==
    /\ call.op = "Get"
    /\ Len(Returned) = 1
    /\ ToConvert[1].Status = "provisioning"
    /\ Returned[1].Ready = "False"
    /\ Returned[1].Message = "Controlplane is being created"

\* C5: a conversion of a response without configuration reference yields
\* Cfg "" and Updated ""; with a named reference, Cfg is that name and
\* Updated is "" for the empty status, "True" for the ready configuration
\* status, and otherwise the status with its first character upper-cased
\* and the rest unchanged.
C5_CfgFields ==
    \A i \in 1..Len(ToConvert) :
        LET cfg == ToConvert[i].ControlPlane.Configuration
        IN  (cfg = <<>> \/ cfg[1].Name # <<>>) =>
                /\ Len(Returned) = Len(ToConvert)
                /\ IF cfg = <<>>
                   THEN Returned[i].Cfg = "" /\ Returned[i].Updated = <<>>
                   ELSE /\ Returned[i].Cfg = cfg[1].Name[1]
                        /\ Returned[i].Updated =
                               (IF cfg[1].Status = <<>> THEN <<>>
                                ELSE IF cfg[1].Status = StrReady THEN StrTrue
                                ELSE UpperFirstChar(cfg[1].Status))

\* C6: List with an empty namespace makes one list call with page size 100;
\* when it succeeds the result is, without error, one converted response
\* per backend element in the backend's order (none for an empty reply);
\* when it fails the failure is returned unchanged and no sequence.
C6_ListOutcome ==
    (call.op = "List" /\ call.namespace = "") =>
        /\ Len(trace) = 1
        /\ trace[1].client = "ctp" /\ trace[1].method = "List"
        /\ trace[1].arg.size = 100
        /\ trace[1].reply.err # <<>> => ret = Return(<<>>, trace[1].reply.err)
        /\ trace[1].reply.err = <<>> =>
               /\ ret.kind = "return"
               /\ ret.err = <<>>
               /\ Len(ret.val) = 1
               /\ Len(ret.val[1]) = Len(ToConvert)
               /\ \A i \in 1..Len(ToConvert) : ret.val[1][i] = convert(ToConvert[i], call.now)

\* C7 as stated: Package is the text before the first "@" and, whenever
\* the reference has an "@", Constraints is the text after the first "@",
\* also when there are several.
C7_SplitOnFirstAt ==
    call.op = "New" =>
        /\ ret.val[1].Package = BeforeFirstAt(call.pkg)
        /\ AtPositions(call.pkg) # {} => ret.val[1].Constraints = AfterFirstAt(call.pkg)

\* C7 as amended: Package is the text before the first "@"; Constraints is
\* the text after the "@" when the reference has exactly one "@", and the
\* default constraint when it has none or more than one.
C7_SplitExactlyOneAt ==
    call.op = "New" =>
        /\ ret.val[1].Package = BeforeFirstAt(call.pkg)
        /\ Cardinality(AtPositions(call.pkg)) = 1 =>
               ret.val[1].Constraints = AfterFirstAt(call.pkg)
        /\ Cardinality(AtPositions(call.pkg)) # 1 =>
               ret.val[1].Constraints = defaultVer

C7_Witness ==
    /\ call.op = "New"
    /\ Cardinality(AtPositions(call.pkg)) = 2
    /\ ret.val[1].Package # <<>>
    /\ ret.val[1].Constraints = defaultVer

\* C8: a reference without explicit version (no "@", or nothing after the
\* "@") gets the default constraint, and New never returns empty
\* Constraints.
C8_DefaultConstraint ==
    call.op = "New" =>
        /\ (AtPositions(call.pkg) = {} \/ AfterFirstAt(call.pkg) = <<>>) =>
               ret.val[1].Constraints = defaultVer
        /\ ret.val[1].Constraints # <<>>

\* C9: ImgTag renders identifier, ":", constraints; and for a reference
\* s@v with no "@" in s or v, the tag of the parsed dependency is s:v.
C9_TagRoundTrip ==
    call.op = "ImgTag" =>
        /\ ret.val[1] = call.d.Package \o <<58>> \o call.d.Constraints
        /\ Cardinality(AtPositions(call.pkg)) = 1 =>
               ret.val[1] = BeforeFirstAt(call.pkg) \o <<58>> \o AfterFirstAt(call.pkg)

C9_Witness ==
    /\ call.op = "ImgTag"
    /\ call.pkg = StrAcmeDb \o StrAt \o StrV123
    /\ ret.val[1] = StrAcmeDb \o StrColon \o StrV123

\* C10: Get, List and Create never abort: each call ends in a returned
\* response or in a returned error, and not both.
C10_ConversionTotal ==
    call.op \in {"Get", "List", "Create"} =>
        /\ ret.kind = "return"
        /\ (ret.val = <<>>) # (ret.err = <<>>)

====
